---- MODULE Spec2Model ----
(***************************************************************************)
(* Taskflow: the priority queue with its task store (core/queue.py), the   *)
(* Task record (core/task.py) and the worker pool with its retry policy    *)
(* (core/worker.py), as a state machine.                                   *)
(*                                                                         *)
(* A worker loop is cut at the points where its coroutine can be           *)
(* suspended with shared state at stake: the blocking get of dequeue (run  *)
(* in an executor thread), the await of the user function in the blocking  *)
(* executor, and the backoff sleep.  The asyncio lock of the queue is      *)
(* never held across an await, so every locked section is one atomic step  *)
(* of the action that contains it.                                         *)
(*                                                                         *)
(* Two kinds of thread run beside the event loop: the default executor's   *)
(* threads, in which dequeue's blocking get runs, and the threads of the   *)
(* pool's own ThreadPoolExecutor(max_workers = num_workers), in which the  *)
(* user functions run.  asyncio.wait_for gives up on a function that       *)
(* exceeds its timeout, but the thread goes on running it.                 *)
(*                                                                         *)
(* Around them: the pool's start and stop (WorkerPool.start, stop), the    *)
(* cron scheduler (core/scheduler.py) over an integer clock of seconds,    *)
(* and the event bus of the websocket observers (api/websocket.py), whose  *)
(* send loops are cut at each await of send_json.                          *)
(***************************************************************************)
EXTENDS Integers, Sequences, FiniteSets, TLC

\* ---------------------------------------------------------------- bounds
NumTasks == 2          \* task objects clients may submit
MaxWorkers == 2        \* WorkerPool(num_workers) is drawn from 1..MaxWorkers
MaxRetriesIn == 2      \* submitted max_retries is drawn from 0..MaxRetriesIn
NumHandles == 3        \* task objects submitted under SpecQueue
MaxQueueSize == 1      \* TaskQueue(maxsize) is drawn from 1..MaxQueueSize under SpecBounded
PoolTasks == 1         \* task objects submitted under SpecPool
MaxStarts == 2         \* calls of WorkerPool.start()
NumObservers == 2      \* websocket connections
NumEvents == 2         \* events passed to task_event_handler
WatchedTasks == 1      \* tasks the observers subscribe to
Minute == 2            \* seconds between two fire times of "* * * * *" (60 in croniter)
MaxClock == 8          \* the seconds the clock runs through
MaxClears == 1         \* calls of TaskQueue.clear()
MaxLatency == 1        \* seconds by which the event loop may run a woken coroutine late

\* ------------------------------------------------------- program constants
CRITICAL == 0
NORMAL == 2
LOW == 3
DefaultMaxRetries == 3
NoTimeout == 0         \* Task.timeout = None (falsy in `if task.timeout`)
SomeTimeout == 1       \* a configured timeout, in seconds

TaskIds == 1..(IF NumHandles > NumTasks THEN NumHandles ELSE NumTasks)
Workers == 1..MaxWorkers
NoTask == 0
Observers == 1..NumObservers
NoObserver == 0
Events == 1..NumEvents

\* No call of task_event_handler for an event yet
Idle ==
    [phase |-> "none", task |-> NoTask, start |-> {}, visited |-> {},
     sending |-> NoObserver, failed |-> {}, detached |-> FALSE, at_emit |-> {}]
Priorities == {CRITICAL, NORMAL, LOW}
NoError == <<>>        \* Task.error = None; a message is a sequence of its pieces
NoResult == "none"
ReturnValue == "value"
NoCron == "none"       \* Task.cron_expression = None
NoRun == -1            \* PeriodicTask.last_run = None
EveryMinute == "* * * * *"
EveryTwoMinutes == "*/2 * * * *"
NotACron == "every minute"
Crons == {EveryMinute, EveryTwoMinutes}
Names == {"report", "cleanup"}
SleepSeconds == 1      \* the scheduler loop's asyncio.sleep(1)
TestSlack == 5         \* test_periodic_task_execution sleeps a minute and 5 seconds

VARIABLES
    task,         \* the Task objects (shared by reference between store, queue and workers)
    store,        \* TaskQueue._tasks: the ids stored
    heap,         \* TaskQueue._queue: the list PriorityQueue keeps as a binary heap
    metrics,      \* TaskQueue._metrics
    running,      \* WorkerPool.running
    num_workers,  \* WorkerPool.num_workers
    pc,           \* position of each worker loop
    held,         \* the task a worker loop holds (its local variable `task`)
    invocations,  \* history: how many times the user function was invoked per task
    events,       \* history: the events passed to the event callback, per task
    backoffs,     \* history: the backoff delays slept, per task
    handled,      \* history: the error_msg of each _handle_task_failure call, per task
    callback,     \* WorkerPool.event_callback: "none", or how the callable behaves
    registered,   \* whether the task function's name is in task_registry
    maxsize,      \* TaskQueue(maxsize): 0 is unbounded
    putting,      \* the task whose enqueue is inside a blocked PriorityQueue.put
    threads,      \* executor threads still running a timed-out attempt, per task
    stop_call,    \* where the call of WorkerPool.stop() is
    start_calls,  \* history: how many times WorkerPool.start() was called
    scheduler,    \* TaskScheduler: periodic_tasks, running, its loop's wake-up time,
                  \* and (history) what the last call of its interface returned
    clock,        \* datetime.now(), in seconds
    manager,      \* ConnectionManager: active_connections and subscriptions
    calls,        \* the calls of task_event_handler in progress
    delivered,    \* history: the messages each observer's send_json has sent
    websocket,    \* the state of each observer's WebSocket object
    clear_call    \* where the call of TaskQueue.clear() is, and (history) the tasks
                  \* that were pending in the queue when clear() was called, the
                  \* tasks that had been enqueued by then, and how many times it
                  \* was called

vars == <<task, store, heap, metrics, running, num_workers, pc, held,
          invocations, events, backoffs, handled, callback, registered,
          maxsize, putting, threads, stop_call, start_calls, scheduler, clock,
          manager, calls, delivered, websocket, clear_call>>

\* The variables of the three parts around the queue and the worker loops: the
\* pool's start and stop calls, the scheduler, the event bus.
life == <<stop_call, start_calls>>

sched == <<scheduler, clock>>

bus == <<manager, calls, delivered, websocket>>

\* What neither the queue nor a worker loop ever assigns.
env == <<num_workers, callback, registered, maxsize>>

\* ------------------------------------------------------------ Task record
NewTask(p, n, to) ==
    [created |-> TRUE, status |-> "PENDING", priority |-> p, retry_count |-> 0,
     max_retries |-> n, timeout |-> to, result |-> NoResult, error |-> NoError,
     started_at |-> FALSE, completed_at |-> FALSE, cron_expression |-> NoCron]

Unborn ==
    [created |-> FALSE, status |-> "PENDING", priority |-> NORMAL, retry_count |-> 0,
     max_retries |-> DefaultMaxRetries, timeout |-> NoTimeout, result |-> NoResult,
     error |-> NoError, started_at |-> FALSE, completed_at |-> FALSE,
     cron_expression |-> NoCron]

mark_queued_skipped(r) == r

mark_queued(r) == [r EXCEPT !.status = "QUEUED"]

mark_running(r) == [r EXCEPT !.status = "RUNNING", !.started_at = TRUE]

mark_completed_unstamped(r, result) ==
    [r EXCEPT !.status = "COMPLETED", !.result = result]

mark_completed(r, result) ==
    [r EXCEPT !.status = "COMPLETED", !.completed_at = TRUE, !.result = result]

mark_failed_error_dropped(r, error) ==
    [r EXCEPT !.status = "FAILED", !.completed_at = TRUE]

mark_failed(r, error) ==
    [r EXCEPT !.status = "FAILED", !.completed_at = TRUE, !.error = error]

mark_retrying(r) ==
    [r EXCEPT !.status = "RETRYING", !.retry_count = @ + 1]

\* ------------------------------------------------ heap of the PriorityQueue
\* Task.__lt__ generated by dataclass(order=True): priority is the only compare field.
TaskLessReversed(a, b, prio) == prio[a] > prio[b]

TaskLess(a, b, prio) == prio[a] < prio[b]

\* heapq._siftdown(heap, startpos, pos) with newitem = heap[pos]; positions are 0-based.
RECURSIVE SiftDown(_, _, _, _, _)
SiftDown(h, startpos, pos, newitem, prio) ==
    IF pos > startpos
    THEN LET parentpos == (pos - 1) \div 2
             parent == h[parentpos + 1]
         IN  IF TaskLess(newitem, parent, prio)
             THEN SiftDown([h EXCEPT ![pos + 1] = parent], startpos, parentpos, newitem, prio)
             ELSE [h EXCEPT ![pos + 1] = newitem]
    ELSE [h EXCEPT ![pos + 1] = newitem]

\* heapq._siftup(heap, pos): bubble the smaller child up to a leaf, then sift newitem down.
RECURSIVE SiftUp(_, _, _, _)
SiftUp(h, pos, newitem, prio) ==
    LET endpos == Len(h)
        childpos == 2 * pos + 1
    IN  IF childpos < endpos
        THEN LET rightpos == childpos + 1
                 c == IF rightpos < endpos
                         /\ ~TaskLess(h[childpos + 1], h[rightpos + 1], prio)
                      THEN rightpos ELSE childpos
             IN  SiftUp([h EXCEPT ![pos + 1] = h[c + 1]], c, newitem, prio)
        ELSE SiftDown(h, 0, pos, newitem, prio)

\* heapq.heappush, called by PriorityQueue._put.
HeapPush(h, item, prio) == SiftDown(Append(h, item), 0, Len(h), item, prio)

\* heapq.heappop, called by PriorityQueue._get: the item returned ...
\* (heap[0], which is lastelt itself when the list holds one item)
HeapPopItem(h) == h[1]

\* ... and the list left behind.
HeapPopRestKeepsItem(h, prio) == h

HeapPopRest(h, prio) ==
    LET lastelt == h[Len(h)]
        rest == SubSeq(h, 1, Len(h) - 1)
    IN  IF rest # <<>> THEN SiftUp([rest EXCEPT ![1] = lastelt], 0, lastelt, prio)
        ELSE rest

PrioOf(tk) == [t \in TaskIds |-> tk[t].priority]

InSeq(h, t) == \E i \in 1..Len(h) : h[i] = t

InHeap(t) == InSeq(heap, t)

\* ------------------------------------------------------------ event loop
\* The thread of the event loop is not inside a call that blocks it or that
\* it runs without an await: a put on a full queue (enqueue),
\* executor.shutdown(wait=True) (stop), the loop of get_nowait (clear).
LoopFree ==
    putting = NoTask /\ stop_call.phase # "shutdown" /\ clear_call.phase = "none"

\* ------------------------------------------------------------- TaskQueue
\* PriorityQueue.qsize(), as enqueue and dequeue read it for current_size: the
\* number of items in the queue at the moment of the call.
qsize_before_get(h) == Len(h) + 1

qsize(h) == Len(h)

\* TaskQueue.size()
size == qsize(heap)

\* PriorityQueue.put blocks while maxsize > 0 and qsize() >= maxsize.
QueueFull == maxsize > 0 /\ Len(heap) >= maxsize

EnqueueUnstored(t, tk) ==
    /\ store' = store
    /\ task' = [tk EXCEPT ![t] = mark_queued(@)]
    /\ IF QueueFull
       THEN /\ putting' = t
            /\ UNCHANGED <<heap, metrics>>
       ELSE /\ heap' = HeapPush(heap, t, PrioOf(tk))
            /\ metrics' = [metrics EXCEPT !.total_enqueued = @ + 1,
                                          !.current_size = qsize(heap')]
            /\ putting' = putting

\* TaskQueue.enqueue(task), given the Task objects as they are at the call.
\* The task is stored and marked before the put; a put on a full queue blocks
\* the calling thread, which is the event loop's, inside the locked section.
Enqueue(t, tk) ==
    /\ store' = store \cup {t}
    /\ task' = [tk EXCEPT ![t] = mark_queued(@)]
    /\ IF QueueFull
       THEN /\ putting' = t
            /\ UNCHANGED <<heap, metrics>>
       ELSE /\ heap' = HeapPush(heap, t, PrioOf(tk))
            /\ metrics' = [metrics EXCEPT !.total_enqueued = @ + 1,
                                          !.current_size = qsize(heap')]
            /\ putting' = putting

\* POST /tasks: the function must be registered; construct a Task and enqueue
\* it.  Ids are fresh, so tasks are created in id order.
Submit(t, p, n, to) ==
    /\ LoopFree
    /\ registered
    /\ ~task[t].created
    /\ \A u \in TaskIds : u < t => task[u].created
    /\ Enqueue(t, [task EXCEPT ![t] = NewTask(p, n, to)])
    /\ UNCHANGED <<clear_call, life, sched, bus, running, env, pc, held, invocations, events, backoffs,
                   handled, threads>>

\* The blocked put of enqueue goes on once a get has made room: the rest of
\* enqueue's locked section runs, and a worker that was re-enqueueing goes back
\* to dequeue.
PutCompletes ==
    /\ putting # NoTask
    /\ ~QueueFull
    /\ heap' = HeapPush(heap, putting, PrioOf(task))
    /\ metrics' = [metrics EXCEPT !.total_enqueued = @ + 1,
                                  !.current_size = qsize(heap')]
    /\ putting' = NoTask
    /\ pc' = [w \in Workers |-> IF pc[w] = "put" THEN "dequeue" ELSE pc[w]]
    /\ held' = [w \in Workers |-> IF pc[w] = "put" THEN NoTask ELSE held[w]]
    /\ UNCHANGED <<clear_call, life, sched, bus, task, store, running, env, invocations, events, backoffs,
                   handled, threads>>

\* TaskQueue.clear() is called and takes the lock.  From here to its return
\* the coroutine has no await, so nothing else runs on the event loop; the
\* blocking get of a dequeue, which runs in an executor thread and takes the
\* PriorityQueue's own mutex only, is not excluded.
ClearBegin ==
    /\ LoopFree
    /\ clear_call' = [phase |-> "loop",
                      pending |-> clear_call.pending \cup {heap[i] : i \in 1..Len(heap)},
                      enqueued |-> {t \in TaskIds : task[t].created},
                      calls |-> clear_call.calls + 1]
    /\ UNCHANGED <<life, sched, bus, task, store, heap, metrics, running, env, pc, held,
                   invocations, events, backoffs, handled, putting, threads>>

\* clear(): `while not self._queue.empty(): self._queue.get_nowait()`, one turn
ClearGet ==
    /\ clear_call.phase = "loop"
    /\ heap # <<>>
    /\ heap' = HeapPopRest(heap, PrioOf(task))
    /\ UNCHANGED <<clear_call, life, sched, bus, task, store, metrics, running, env, pc,
                   held, invocations, events, backoffs, handled, putting, threads>>

ClearStoreOnly ==
    /\ LoopFree
    /\ store' = {}
    /\ UNCHANGED <<clear_call, life, sched, bus, task, heap, metrics, running, env, pc,
                   held, invocations, events, backoffs, handled, putting, threads>>

\* clear(): the queue is empty; self._tasks.clear(), current_size = 0, return
ClearDone ==
    /\ clear_call.phase = "loop"
    /\ heap = <<>>
    /\ store' = {}
    /\ metrics' = [metrics EXCEPT !.current_size = 0]
    /\ clear_call' = [clear_call EXCEPT !.phase = "none"]
    /\ UNCHANGED <<life, sched, bus, task, heap, running, env, pc, held, invocations,
                   events, backoffs, handled, putting, threads>>

\* -------------------------------------------------------------- registry
\* TaskRegistry.unregister(name)
Unregister ==
    /\ LoopFree
    /\ registered
    /\ registered' = FALSE
    /\ UNCHANGED <<clear_call, life, sched, bus, task, store, heap, metrics, running, num_workers, pc, held,
                   invocations, events, backoffs, handled, callback, maxsize,
                   putting, threads>>

\* TaskRegistry.register(name)
Register ==
    /\ LoopFree
    /\ ~registered
    /\ registered' = TRUE
    /\ UNCHANGED <<clear_call, life, sched, bus, task, store, heap, metrics, running, num_workers, pc, held,
                   invocations, events, backoffs, handled, callback, maxsize,
                   putting, threads>>

\* ------------------------------------------------------------ WorkerPool
\* The slots of the model no worker loop occupies.
FreeSlots == {w \in Workers : pc[w] = "off"}

\* WorkerPool.start(): the loops a call creates, given self.running
\* (`if self.running: return`, else one loop per i in range(num_workers)).
SpawnedAnyway(r) ==
    {w \in FreeSlots : Cardinality({v \in FreeSlots : v < w}) < num_workers}

Spawned(r) ==
    IF r THEN {}
    ELSE {w \in FreeSlots : Cardinality({v \in FreeSlots : v < w}) < num_workers}

\* WorkerPool.start() on a pool that is not running
Start ==
    /\ LoopFree
    /\ ~running
    /\ running' = TRUE
    /\ pc' = [w \in Workers |-> IF w \in Spawned(running) THEN "dequeue" ELSE pc[w]]
    /\ start_calls' = start_calls + 1
    /\ UNCHANGED <<clear_call, stop_call, sched, bus, task, store, heap, metrics, env, held,
                   invocations, events, backoffs, handled, putting, threads>>

\* WorkerPool.start() on a pool that is running: the warning and the return
StartAgain ==
    /\ LoopFree
    /\ running
    /\ start_calls < MaxStarts
    /\ running' = TRUE
    /\ pc' = [w \in Workers |-> IF w \in Spawned(running) THEN "dequeue" ELSE pc[w]]
    /\ start_calls' = start_calls + 1
    /\ UNCHANGED <<clear_call, stop_call, sched, bus, task, store, heap, metrics, env, held,
                   invocations, events, backoffs, handled, putting, threads>>

\* ThreadPoolExecutor.shutdown has been called on the blocking executor.
ExecutorShutDown == stop_call.phase \in {"shutdown", "joined", "signalled"}

\* TaskQueue.dequeue: the blocking PriorityQueue.get in the executor thread returns a task.
\* (On Empty, dequeue returns None and the loop sleeps and retries: no state changes.)
\* The get runs in a thread of its own, so it can return while the event loop
\* is blocked in a put.
DequeueGet(w) ==
    /\ \/ pc[w] = "dequeue" /\ running
       \/ pc[w] = "inget"
    /\ heap # <<>>
    /\ held' = [held EXCEPT ![w] = HeapPopItem(heap)]
    /\ heap' = HeapPopRest(heap, PrioOf(task))
    /\ pc' = [pc EXCEPT ![w] = "got"]
    /\ UNCHANGED <<clear_call, life, sched, bus, task, store, metrics, running, env, invocations,
                   events, backoffs, handled, putting, threads>>

\* WorkerPool._emit_event: nothing is passed on when no callback is configured.
EmitUnlessFailed(t, e) ==
    events' = [events EXCEPT ![t] = IF callback = "none" \/ e = "task_failed"
                                    THEN @ ELSE Append(@, e)]

Emit(t, e) ==
    events' = [events EXCEPT ![t] = IF callback = "none" THEN @ ELSE Append(@, e)]

\* WorkerPool._emit_event: whether an exception of the callback leaves
\* _emit_event (`except Exception` logs it and returns).
EmitPropagatesUncaught(cb) == cb = "raises"

EmitPropagates(cb) == FALSE

RECURSIVE SumOver(_, _)
SumOver(f, S) ==
    IF S = {} THEN 0
    ELSE LET x == CHOOSE y \in S : TRUE IN f[x] + SumOver(f, S \ {x})

\* The threads of ThreadPoolExecutor(max_workers = num_workers) that are
\* running a user function: those a worker loop awaits and those left behind
\* by attempts that timed out.
BusySaturated == num_workers

Busy == Cardinality({w \in Workers : pc[w] = "invoked"}) + SumOver(threads, TaskIds)

\* dequeue's metrics update and return, then _execute_task: mark_running,
\* update_task, the task_started event, and the user function resolved, bound
\* and submitted to the blocking executor, where it starts at once if a thread
\* is free.  (The await of the event callback is followed only by steps local
\* to this worker and by the registry lookup, so it ends no action.)
ExecuteStart(w) ==
    /\ LoopFree
    /\ pc[w] = "got"
    /\ metrics' = [metrics EXCEPT !.total_dequeued = @ + 1,
                                  !.current_size = qsize(heap)]
    /\ task' = [task EXCEPT ![held[w]] = mark_running(@)]
    /\ store' = store \cup {held[w]}
    /\ Emit(held[w], "task_started")
    /\ IF EmitPropagates(callback)
       THEN \* out of _execute_task: _worker_loop logs the error, sleeps, loops
            /\ pc' = [pc EXCEPT ![w] = "dequeue"]
            /\ held' = [held EXCEPT ![w] = NoTask]
            /\ invocations' = invocations
       ELSE IF ~registered
       THEN \* task_registry.get is going to raise KeyError
            /\ pc' = [pc EXCEPT ![w] = "unresolved"]
            /\ UNCHANGED <<held, invocations>>
       ELSE IF ExecutorShutDown
       THEN \* run_in_executor is going to raise RuntimeError
            /\ pc' = [pc EXCEPT ![w] = "rejected"]
            /\ UNCHANGED <<held, invocations>>
       ELSE IF Busy < num_workers
       THEN /\ pc' = [pc EXCEPT ![w] = "invoked"]
            /\ invocations' = [invocations EXCEPT ![held[w]] = @ + 1]
            /\ held' = held
       ELSE /\ pc' = [pc EXCEPT ![w] = "pending"]
            /\ UNCHANGED <<held, invocations>>
    /\ UNCHANGED <<clear_call, life, sched, bus, heap, running, env, backoffs, handled, putting, threads>>

\* A thread of the executor is free and takes the submitted call.
ThreadStarts(w) ==
    /\ pc[w] = "pending"
    /\ Busy < num_workers
    /\ pc' = [pc EXCEPT ![w] = "invoked"]
    /\ invocations' = [invocations EXCEPT ![held[w]] = @ + 1]
    /\ UNCHANGED <<clear_call, life, sched, bus, task, store, heap, metrics, running, env, held, events,
                   backoffs, handled, putting, threads>>

\* _handle_task_failure: `task.retry_count += 1` ("Increment retry count FIRST").
FailureCountSkipped(rc) == rc

FailureCount(rc) == rc + 1

\* _handle_task_failure: the exhaustion test.
ExhaustedAtOnce(rc, max) == TRUE

Exhausted(rc, max) == rc > max

RECURSIVE Pow2(_)
Pow2(n) == IF n <= 0 THEN 1 ELSE 2 * Pow2(n - 1)

\* _handle_task_failure: backoff_delay = 2 ** (task.retry_count - 1)
BackoffDelay(rc) == Pow2(rc - 1)

\* f"Task exceeded timeout of {task.timeout}s", in pieces
TimeoutMessage(r) == <<"Task exceeded ", "timeout", " of ", ToString(r.timeout), "s">>

\* f"{type(e).__name__}: {str(e)}", in pieces
ExceptionMessage(name, text) == <<name, ": ", text>>

\* The error_msg _execute_task hands to _handle_task_failure.
ErrorMessage(kind, r) ==
    CASE kind = "timeout" -> TimeoutMessage(r)
      [] kind = "keyerror" -> ExceptionMessage("KeyError", "Task not found in registry")
      [] kind = "runtimeerror" ->
            ExceptionMessage("RuntimeError", "cannot schedule new futures after shutdown")
      [] kind = "callback" -> ExceptionMessage("RuntimeError", "raised by the callback")
      [] OTHER -> ExceptionMessage("ValueError", "raised by the function")

\* _handle_task_failure(task, error_msg): the Task it leaves behind.
AfterFailure(r, msg) ==
    LET counted == [r EXCEPT !.retry_count = FailureCount(@)]
    IN  IF Exhausted(counted.retry_count, counted.max_retries)
        THEN mark_failed(counted, msg)
        ELSE mark_retrying(counted)

\* _execute_task: the function returned in time.  mark_completed, update_task
\* and the task_completed event are inside the try, so an exception out of
\* _emit_event would be handled as a failure of the attempt, and the exception
\* out of that failure's own event would reach the worker loop.
AttemptSucceeds(w) ==
    /\ LoopFree
    /\ pc[w] = "invoked"
    /\ LET t == held[w]
           done == mark_completed(task[t], ReturnValue)
           msg == ErrorMessage("callback", done)
       IN  IF EmitPropagates(callback)
           THEN /\ task' = [task EXCEPT ![t] = AfterFailure(done, msg)]
                /\ events' = [events EXCEPT ![t] =
                                 @ \o <<"task_completed",
                                        IF task'[t].status = "FAILED"
                                        THEN "task_failed" ELSE "task_retrying">>]
                /\ handled' = [handled EXCEPT ![t] = Append(@, msg)]
           ELSE /\ task' = [task EXCEPT ![t] = done]
                /\ Emit(t, "task_completed")
                /\ handled' = handled
    /\ store' = store \cup {held[w]}
    /\ pc' = [pc EXCEPT ![w] = "dequeue"]
    /\ held' = [held EXCEPT ![w] = NoTask]
    /\ UNCHANGED <<clear_call, life, sched, bus, heap, metrics, running, env, invocations, backoffs,
                   putting, threads>>

\* _execute_task: the function raised ("exception"), wait_for gave up on it
\* after task.timeout seconds ("timeout": the call may not even have started,
\* and if it has, its thread goes on running), or task_registry.get raised
\* ("keyerror"), or the executor, shut down by stop, refused the call
\* ("runtimeerror"); then _handle_task_failure: either the task is marked FAILED
\* and the loop goes back to dequeue, or it is marked RETRYING, the delay is
\* computed and the worker sleeps.
AttemptFails(w, kind) ==
    /\ LoopFree
    /\ kind = "exception" => pc[w] = "invoked"
    /\ kind = "timeout" => /\ pc[w] \in {"invoked", "pending"}
                           /\ task[held[w]].timeout # NoTimeout
    /\ kind = "keyerror" => pc[w] = "unresolved"
    /\ kind = "runtimeerror" => pc[w] = "rejected"
    /\ LET t == held[w]
           msg == ErrorMessage(kind, task[t])
           counted == [task[t] EXCEPT !.retry_count = FailureCount(@)]
       IN  /\ handled' = [handled EXCEPT ![t] = Append(@, msg)]
           /\ threads' = [threads EXCEPT ![t] =
                             IF kind = "timeout" /\ pc[w] = "invoked" THEN @ + 1 ELSE @]
           /\ IF Exhausted(counted.retry_count, counted.max_retries)
              THEN /\ task' = [task EXCEPT ![t] = mark_failed(counted, msg)]
                   /\ Emit(t, "task_failed")
                   /\ pc' = [pc EXCEPT ![w] = "dequeue"]
                   /\ held' = [held EXCEPT ![w] = NoTask]
                   /\ backoffs' = backoffs
              ELSE /\ task' = [task EXCEPT ![t] = mark_retrying(counted)]
                   /\ Emit(t, "task_retrying")
                   /\ IF EmitPropagates(callback)
                      THEN \* out to _worker_loop before the sleep
                           /\ pc' = [pc EXCEPT ![w] = "dequeue"]
                           /\ held' = [held EXCEPT ![w] = NoTask]
                           /\ backoffs' = backoffs
                      ELSE /\ backoffs' = [backoffs EXCEPT ![t] =
                                    Append(@, BackoffDelay(task'[t].retry_count))]
                           /\ pc' = [pc EXCEPT ![w] = "backoff"]
                           /\ held' = held
    /\ store' = store \cup {held[w]}
    /\ UNCHANGED <<clear_call, life, sched, bus, heap, metrics, running, env, invocations, putting>>

\* What becomes of the value a function returns after wait_for has given up on
\* it: wait_for cancelled the future, so nobody receives the value.
LateResultStored(r, value) == [r EXCEPT !.result = value]

LateResult(r, value) == r

\* The thread of a timed-out attempt returns from the user function.
LateReturn(t) ==
    /\ threads[t] > 0
    /\ threads' = [threads EXCEPT ![t] = @ - 1]
    /\ task' = [task EXCEPT ![t] = LateResult(@, ReturnValue)]
    /\ UNCHANGED <<clear_call, life, sched, bus, store, heap, metrics, running, env, pc, held, invocations,
                   events, backoffs, handled, putting>>

RequeueDetached(w) ==
    /\ LoopFree
    /\ pc[w] = "backoff"
    /\ pc' = [pc EXCEPT ![w] = "dequeue"]
    /\ held' = [held EXCEPT ![w] = NoTask]
    /\ UNCHANGED <<clear_call, life, sched, bus, task, store, heap, metrics, running, env,
                   invocations, events, backoffs, handled, putting, threads>>

\* _handle_task_failure after the sleep: queue.enqueue(task); the loop dequeues
\* again once enqueue has returned.
Requeue(w) ==
    /\ LoopFree
    /\ pc[w] = "backoff"
    /\ Enqueue(held[w], task)
    /\ pc' = [pc EXCEPT ![w] = IF QueueFull THEN "put" ELSE "dequeue"]
    /\ held' = [held EXCEPT ![w] = IF QueueFull THEN @ ELSE NoTask]
    /\ UNCHANGED <<clear_call, life, sched, bus, running, env, invocations, events, backoffs, handled, threads>>

\* WorkerPool.stop(wait): the flag is cleared; with wait, the call awaits the
\* gather of the worker loops and then shuts the executor down, waiting for
\* its threads; without, it shuts the executor down without waiting and
\* returns.  A loop that is inside dequeue when the flag is cleared is inside
\* the get of at most one second, which can still return a task.
Stop(wait) ==
    /\ LoopFree
    /\ stop_call.phase = "none"
    /\ running' = FALSE
    /\ pc' = [w \in Workers |-> IF pc[w] = "dequeue" THEN "inget" ELSE pc[w]]
    /\ stop_call' = [phase |-> IF wait THEN "gather" ELSE "signalled",
                     executing |-> {t \in store : task[t].status = "RUNNING"}]
    /\ UNCHANGED <<clear_call, start_calls, sched, bus, task, store, heap, metrics, env, held,
                   invocations, events, backoffs, handled, putting, threads>>

\* stop(wait=True): every gathered loop has returned; executor.shutdown(wait=True)
\* returns at once when no thread of the executor is running a function, and
\* blocks the event loop until they have returned otherwise.
StopGathered ==
    /\ LoopFree
    /\ stop_call.phase = "gather"
    /\ \A w \in Workers : pc[w] = "off"
    /\ stop_call' = [stop_call EXCEPT !.phase = IF Busy = 0 THEN "joined" ELSE "shutdown"]
    /\ UNCHANGED <<clear_call, start_calls, sched, bus, task, store, heap, metrics, running, env,
                   pc, held, invocations, events, backoffs, handled, putting, threads>>

\* executor.shutdown(wait=True) returns, and stop with it.
ShutdownReturns ==
    /\ stop_call.phase = "shutdown"
    /\ Busy = 0
    /\ stop_call' = [stop_call EXCEPT !.phase = "joined"]
    /\ UNCHANGED <<clear_call, start_calls, sched, bus, task, store, heap, metrics, running, env,
                   pc, held, invocations, events, backoffs, handled, putting, threads>>

\* _worker_loop: the positions at which the loop tests `while self.running`.
ExitsAnywhere(p) == p # "off"

ExitsAt(p) == p \in {"dequeue", "inget"}

\* _worker_loop: the loop finds self.running false and returns.
WorkerExit(w) ==
    /\ LoopFree
    /\ ExitsAt(pc[w])
    /\ ~running
    /\ pc' = [pc EXCEPT ![w] = "off"]
    /\ UNCHANGED <<clear_call, life, sched, bus, task, store, heap, metrics, running, env, held,
                   invocations, events, backoffs, handled, putting, threads>>

\* ---------------------------------------------------------- TaskScheduler
\* croniter(cron_expression) in PeriodicTask.__init__: whether it parses.
CronValidAlways(expr) == TRUE

CronValid(expr) == expr \in Crons

\* The fire times of an expression are the multiples of its period.
CronPeriod(expr) == IF expr = EveryTwoMinutes THEN 2 * Minute ELSE Minute

\* PeriodicTask._calculate_next_run with datetime.now() = now:
\* croniter(expr, now).get_next(datetime), the first fire time after now.
calculate_next_run_inclusive(expr, now) ==
    ((now + CronPeriod(expr) - 1) \div CronPeriod(expr)) * CronPeriod(expr)

calculate_next_run(expr, now) == ((now \div CronPeriod(expr)) + 1) * CronPeriod(expr)

\* PeriodicTask.__init__ once the expression has been validated
PeriodicTask(name, expr, p, now) ==
    [name |-> name, cron_expression |-> expr, priority |-> p,
     max_retries |-> DefaultMaxRetries, timeout |-> NoTimeout, enabled |-> TRUE,
     next_run |-> calculate_next_run(expr, now), last_run |-> NoRun, run_count |-> 0]

\* PeriodicTask.should_run with datetime.now() = now
should_run_though_disabled(d, now) == now >= d.next_run

should_run(d, now) == IF ~d.enabled THEN FALSE ELSE now >= d.next_run

\* PeriodicTask.create_task_instance
create_task_instance_defaults(d) == NewTask(NORMAL, DefaultMaxRetries, NoTimeout)

create_task_instance(d) ==
    [NewTask(d.priority, d.max_retries, d.timeout)
        EXCEPT !.cron_expression = d.cron_expression]

\* PeriodicTask.mark_executed with datetime.now() = now
mark_executed(d, now) ==
    [d EXCEPT !.last_run = now, !.run_count = @ + 1,
              !.next_run = calculate_next_run(d.cron_expression, now)]

\* self.periodic_tasks is a dict: its items in insertion order, Find the
\* position of a name (0: not a key).
Find(defs, name) ==
    IF \E i \in 1..Len(defs) : defs[i].name = name
    THEN CHOOSE i \in 1..Len(defs) : defs[i].name = name
    ELSE 0

\* self.periodic_tasks[name] = periodic_task
Stored(defs, d) ==
    IF Find(defs, d.name) = 0 THEN Append(defs, d)
    ELSE [defs EXCEPT ![Find(defs, d.name)] = d]

\* del self.periodic_tasks[name]
Deleted(defs, name) ==
    [i \in 1..(Len(defs) - 1) |-> IF i < Find(defs, name) THEN defs[i] ELSE defs[i + 1]]

\* Task.task_id of a Task constructed now: fresh.
Uncreated(tk) == {t \in TaskIds : ~tk[t].created}

FreshId(tk) == CHOOSE t \in Uncreated(tk) : \A u \in Uncreated(tk) : t <= u

\* What the call of the scheduler's interface returns
Returns(op, name, outcome, id) ==
    [op |-> op, name |-> name, outcome |-> outcome, task_id |-> id]

\* TaskScheduler.add_periodic_task(name, func_name, cron_expression, priority=p):
\* PeriodicTask.__init__ raises ValueError before the assignment to the dict.
AddPeriodicTask(name, expr, p) ==
    /\ LoopFree
    /\ IF CronValid(expr)
       THEN scheduler' = [scheduler EXCEPT
                !.periodic_tasks = Stored(@, PeriodicTask(name, expr, p, clock)),
                !.returned = Returns("add_periodic_task", name, "stored", NoTask)]
       ELSE scheduler' = [scheduler EXCEPT
                !.returned = Returns("add_periodic_task", name, "ValueError", NoTask)]
    /\ UNCHANGED <<clear_call, life, bus, clock, task, store, heap, metrics, running, env, pc, held,
                   invocations, events, backoffs, handled, putting, threads>>

\* TaskScheduler.remove_periodic_task(name)
RemovePeriodicTask(name) ==
    /\ LoopFree
    /\ IF Find(scheduler.periodic_tasks, name) # 0
       THEN scheduler' = [scheduler EXCEPT
                !.periodic_tasks = Deleted(@, name),
                !.returned = Returns("remove_periodic_task", name, "True", NoTask)]
       ELSE scheduler' = [scheduler EXCEPT
                !.returned = Returns("remove_periodic_task", name, "False", NoTask)]
    /\ UNCHANGED <<clear_call, life, bus, clock, task, store, heap, metrics, running, env, pc, held,
                   invocations, events, backoffs, handled, putting, threads>>

\* The owner of a definition (add_periodic_task and get_periodic_task return
\* the object) assigns its attribute `enabled`.
SetEnabled(name, b) ==
    /\ LoopFree
    /\ Find(scheduler.periodic_tasks, name) # 0
    /\ scheduler.periodic_tasks[Find(scheduler.periodic_tasks, name)].enabled # b
    /\ scheduler' = [scheduler EXCEPT
           !.periodic_tasks[Find(scheduler.periodic_tasks, name)].enabled = b]
    /\ UNCHANGED <<clear_call, life, bus, clock, task, store, heap, metrics, running, env, pc, held,
                   invocations, events, backoffs, handled, putting, threads>>

\* TaskScheduler.trigger_now(name), on the unbounded queue of main.py
TriggerNow(name) ==
    /\ LoopFree
    /\ maxsize = 0
    /\ LET i == Find(scheduler.periodic_tasks, name)
           t == FreshId(task)
       IN  IF i = 0
           THEN /\ scheduler' = [scheduler EXCEPT
                       !.returned = Returns("trigger_now", name, "None", NoTask)]
                /\ UNCHANGED <<task, store, heap, metrics, putting>>
           ELSE /\ Uncreated(task) # {}
                /\ Enqueue(t, [task EXCEPT
                                  ![t] = create_task_instance(scheduler.periodic_tasks[i])])
                /\ scheduler' = [scheduler EXCEPT
                       !.returned = Returns("trigger_now", name, "task_id", t)]
    /\ UNCHANGED <<clear_call, life, bus, clock, running, env, pc, held, invocations, events,
                   backoffs, handled, threads>>

\* TaskScheduler.start(): the loop is created and scans at once.
SchedulerStart ==
    /\ LoopFree
    /\ ~scheduler.running
    /\ scheduler' = [scheduler EXCEPT !.running = TRUE, !.wake = clock]
    /\ UNCHANGED <<clear_call, life, bus, clock, task, store, heap, metrics, running, env, pc, held,
                   invocations, events, backoffs, handled, putting, threads>>

\* TaskScheduler.stop(): the flag is cleared and the loop, asleep, is cancelled.
SchedulerStop ==
    /\ LoopFree
    /\ scheduler.running
    /\ scheduler' = [scheduler EXCEPT !.running = FALSE]
    /\ UNCHANGED <<clear_call, life, bus, clock, task, store, heap, metrics, running, env, pc, held,
                   invocations, events, backoffs, handled, putting, threads>>

\* One iteration of _scheduler_loop over list(self.periodic_tasks.items()),
\* from definition i on: should_run reads the clock as `seen`, mark_executed
\* as `now`.  q holds the definitions and the queue as the iteration has left
\* them so far; enqueue, whose lock is free and whose put does not block, never
\* suspends the loop.
RECURSIVE Scan(_, _, _, _)
Scan(q, i, seen, now) ==
    IF i > Len(q.defs) THEN q
    ELSE IF should_run(q.defs[i], seen)
    THEN LET t == FreshId(q.task)
             made == [q.task EXCEPT ![t] = create_task_instance(q.defs[i])]
             pushed == HeapPush(q.heap, t, PrioOf(made))
         IN  Scan([defs |-> [q.defs EXCEPT ![i] = mark_executed(@, now)],
                   task |-> [made EXCEPT ![t] = mark_queued(@)],
                   store |-> q.store \cup {t},
                   heap |-> pushed,
                   metrics |-> [q.metrics EXCEPT !.total_enqueued = @ + 1,
                                                 !.current_size = qsize(pushed)]],
                  i + 1, seen, now)
    ELSE Scan(q, i + 1, seen, now)

\* The definitions a scan at `seen` fires
Due(defs, seen) == {i \in 1..Len(defs) : should_run(defs[i], seen)}

\* asyncio.sleep(1) at the end of an iteration: when the loop is due again
NextWakeLate(now) == now + SleepSeconds + MaxClock

NextWake(now) == now + SleepSeconds

\* _scheduler_loop: the loop wakes up, scans, and goes to sleep for a second.
\* Up to a second goes by between the clock reads of should_run and those of
\* mark_executed.
SchedulerTick ==
    /\ LoopFree
    /\ maxsize = 0
    /\ scheduler.running
    /\ clock >= scheduler.wake
    /\ Cardinality(Uncreated(task)) >= Cardinality(Due(scheduler.periodic_tasks, clock))
    /\ \E d \in 0..1 :
          /\ clock + d <= MaxClock
          /\ clock' = clock + d
          /\ LET q == Scan([defs |-> scheduler.periodic_tasks, task |-> task,
                            store |-> store, heap |-> heap, metrics |-> metrics],
                           1, clock, clock')
             IN  /\ scheduler' = [scheduler EXCEPT !.periodic_tasks = q.defs,
                                                   !.wake = NextWake(clock')]
                 /\ task' = q.task
                 /\ store' = q.store
                 /\ heap' = q.heap
                 /\ metrics' = q.metrics
    /\ UNCHANGED <<clear_call, life, bus, running, env, pc, held, invocations, events, backoffs,
                   handled, putting, threads>>

\* A second goes by.  While the scheduler loop runs, the event loop resumes it
\* at most MaxLatency seconds after its sleep has ended.
Pass ==
    /\ clock < MaxClock
    /\ scheduler.running => clock + 1 <= scheduler.wake + MaxLatency
    /\ clock' = clock + 1
    /\ UNCHANGED <<clear_call, life, bus, scheduler, task, store, heap, metrics, running, env, pc,
                   held, invocations, events, backoffs, handled, putting, threads>>

\* ------------------------------------------------------ ConnectionManager
\* A call of task_event_handler is cut at its awaits of send_json.  Its record:
\* phase ("subscribers": inside send_to_task_subscribers, "broadcast": inside
\* broadcast, "returned", "raised"), the set its `for` iterates as it was when
\* the iterator was created (start), the connections the iterator has yielded
\* (visited), the one whose send_json is awaited (sending), the list
\* `disconnected` (failed), whether the iterated set has been deleted from
\* self.subscriptions (detached), and, as history, the connections that were
\* active when the event was emitted (at_emit).

\* ConnectionManager.disconnect(websocket); a set is absent from
\* self.subscriptions exactly when it is empty here.
disconnect(m, o) ==
    [active_connections |-> m.active_connections \ {o},
     subscriptions |-> [t \in TaskIds |-> m.subscriptions[t] \ {o}]]

\* ConnectionManager.subscribe(websocket, task_id)
subscribe(m, o, t) == [m EXCEPT !.subscriptions[t] = @ \cup {o}]

\* ConnectionManager.unsubscribe(websocket, task_id)
unsubscribe(m, o, t) == [m EXCEPT !.subscriptions[t] = @ \ {o}]

\* `for connection in disconnected: self.disconnect(connection)`
DisconnectAll(m, S) ==
    [active_connections |-> m.active_connections \ S,
     subscriptions |-> [t \in TaskIds |-> m.subscriptions[t] \ S]]

\* The calls as a change of the manager from m to m2 leaves them: a set of
\* subscribers that has become empty is deleted from the dict, and a loop that
\* iterates it keeps the deleted, empty set.
Detached(cs, m, m2) ==
    [ev \in Events |->
        IF /\ cs[ev].phase = "subscribers"
           /\ m.subscriptions[cs[ev].task] # {}
           /\ m2.subscriptions[cs[ev].task] = {}
        THEN [cs[ev] EXCEPT !.detached = TRUE]
        ELSE cs[ev]]

\* The set a loop of a call iterates: self.subscriptions[task_id] or
\* self.active_connections themselves, not copies.
Iterated(c, m) ==
    IF c.phase = "subscribers" THEN m.subscriptions[c.task] ELSE m.active_connections

\* next() of a set iterator raises RuntimeError("Set changed size during
\* iteration") when the set no longer has the size it had at the start.
SizeChanged(c, m) ==
    c.detached \/ Cardinality(Iterated(c, m)) # Cardinality(c.start)

\* A `for` over the set S begins: the records the call can have at the await
\* of its first send_json.
BeginLoop(c, S, ph) ==
    {[c EXCEPT !.phase = ph, !.start = S, !.visited = {n}, !.sending = n,
               !.failed = {}, !.detached = FALSE] : n \in S}

\* task_event_handler after send_to_task_subscribers: broadcast(message), which
\* returns at once when no connection is active.
BeginBroadcast(c, m) ==
    IF m.active_connections = {}
    THEN {[c EXCEPT !.phase = "returned", !.sending = NoObserver]}
    ELSE BeginLoop(c, m.active_connections, "broadcast")

\* task_event_handler from its call to its first await:
\* send_to_task_subscribers returns at once when the task has no subscribers.
BeginHandler(c, m) ==
    IF m.subscriptions[c.task] = {}
    THEN BeginBroadcast(c, m)
    ELSE BeginLoop(c, m.subscriptions[c.task], "subscribers")

\* WorkerPool._emit_event awaits task_event_handler(event_type, task): event ev
\* of task t.
HandlerStart(ev, t) ==
    /\ calls[ev].phase = "none"
    /\ \A e \in Events : e < ev => calls[e].phase # "none"
    /\ \E c \in BeginHandler([Idle EXCEPT !.task = t,
                                          !.at_emit = manager.active_connections],
                             manager) :
          calls' = [calls EXCEPT ![ev] = c]
    /\ UNCHANGED <<clear_call, life, sched, manager, delivered, websocket, task, store, heap,
                   metrics, running, env, pc, held, invocations, events, backoffs,
                   handled, putting, threads>>

\* The message of event ev, as the observer receives it, and the method that
\* sent it
Message(ev, c) ==
    [event |-> ev, task |-> c.task,
     by |-> IF c.phase = "subscribers" THEN "send_to_task_subscribers" ELSE "broadcast"]

\* The awaited send_json returns or raises, and the call runs on to its next
\* await: the iterator's next() raises, or yields another connection, or the
\* loop ends, the failed connections are disconnected and, after
\* send_to_task_subscribers, broadcast begins.  A connection added while the
\* loop was suspended is yielded or not, depending on where the set put it.
SendReturns(ev) ==
    LET c == calls[ev]
        o == c.sending
        ok == websocket[o] = "open"
        c1 == [c EXCEPT !.sending = NoObserver,
                        !.failed = IF ok THEN @ ELSE @ \cup {o}]
        rest == Iterated(c, manager) \ c.visited
        m2 == DisconnectAll(manager, c1.failed)
    IN  /\ c.phase \in {"subscribers", "broadcast"}
        /\ websocket[o] # "stalled"
        /\ delivered' = [delivered EXCEPT ![o] = IF ok THEN @ \cup {Message(ev, c)} ELSE @]
        /\ IF SizeChanged(c, manager)
           THEN /\ calls' = [calls EXCEPT ![ev] = [c1 EXCEPT !.phase = "raised"]]
                /\ manager' = manager
           ELSE \/ \E n \in rest :
                      /\ calls' = [calls EXCEPT ![ev] =
                                      [c1 EXCEPT !.visited = @ \cup {n}, !.sending = n]]
                      /\ manager' = manager
                \/ /\ rest \cap c.start = {}
                   /\ manager' = m2
                   /\ \E nc \in (IF c.phase = "subscribers"
                                 THEN BeginBroadcast(c1, m2)
                                 ELSE {[c1 EXCEPT !.phase = "returned"]}) :
                         calls' = Detached([calls EXCEPT ![ev] = nc], manager, m2)
        /\ UNCHANGED <<clear_call, life, sched, websocket, task, store, heap, metrics, running,
                       env, pc, held, invocations, events, backoffs, handled, putting,
                       threads>>

\* websocket_endpoint: manager.connect(websocket)
Connect(o) ==
    /\ websocket[o] = "new"
    /\ websocket' = [websocket EXCEPT ![o] = "open"]
    /\ manager' = [manager EXCEPT !.active_connections = @ \cup {o}]
    /\ UNCHANGED <<clear_call, life, sched, calls, delivered, task, store, heap, metrics, running,
                   env, pc, held, invocations, events, backoffs, handled, putting,
                   threads>>

\* The connection of an observer breaks: send_json raises from now on.
Break(o) ==
    /\ websocket[o] = "open"
    /\ websocket' = [websocket EXCEPT ![o] = "broken"]
    /\ UNCHANGED <<clear_call, life, sched, manager, calls, delivered, task, store, heap, metrics,
                   running, env, pc, held, invocations, events, backoffs, handled,
                   putting, threads>>

\* The observer stops reading: a send_json to it does not complete from now on
\* (the transport's buffer is full and drain() waits).
Stall(o) ==
    /\ websocket[o] = "open"
    /\ websocket' = [websocket EXCEPT ![o] = "stalled"]
    /\ UNCHANGED <<clear_call, life, sched, manager, calls, delivered, task, store, heap, metrics,
                   running, env, pc, held, invocations, events, backoffs, handled,
                   putting, threads>>

\* websocket_endpoint: receive_json raises (the client has closed, or the
\* connection is broken) and the handler calls manager.disconnect(websocket).
Close(o) ==
    /\ websocket[o] \in {"open", "broken"}
    /\ websocket' = [websocket EXCEPT ![o] = "closed"]
    /\ manager' = disconnect(manager, o)
    /\ calls' = Detached(calls, manager, manager')
    /\ UNCHANGED <<clear_call, life, sched, delivered, task, store, heap, metrics, running, env,
                   pc, held, invocations, events, backoffs, handled, putting, threads>>

\* websocket_endpoint: a 'subscribe' message of the client
Subscribe(o, t) ==
    /\ websocket[o] = "open"
    /\ o \notin manager.subscriptions[t]
    /\ manager' = subscribe(manager, o, t)
    /\ UNCHANGED <<clear_call, life, sched, calls, delivered, websocket, task, store, heap,
                   metrics, running, env, pc, held, invocations, events, backoffs,
                   handled, putting, threads>>

\* websocket_endpoint: an 'unsubscribe' message of the client
Unsubscribe(o, t) ==
    /\ websocket[o] = "open"
    /\ o \in manager.subscriptions[t]
    /\ manager' = unsubscribe(manager, o, t)
    /\ calls' = Detached(calls, manager, manager')
    /\ UNCHANGED <<clear_call, life, sched, delivered, websocket, task, store, heap, metrics,
                   running, env, pc, held, invocations, events, backoffs, handled,
                   putting, threads>>

\* ------------------------------------------------------------ specification
\* The state WorkerPool.__init__, TaskQueue.__init__ and the registration of
\* the task function leave, whatever the callback and the bound of the queue.
Constructed ==
    /\ task = [t \in TaskIds |-> Unborn]
    /\ store = {}
    /\ heap = <<>>
    /\ metrics = [total_enqueued |-> 0, total_dequeued |-> 0, current_size |-> 0]
    /\ running = FALSE
    /\ num_workers \in 1..MaxWorkers
    /\ pc = [w \in Workers |-> "off"]
    /\ held = [w \in Workers |-> NoTask]
    /\ invocations = [t \in TaskIds |-> 0]
    /\ events = [t \in TaskIds |-> <<>>]
    /\ backoffs = [t \in TaskIds |-> <<>>]
    /\ handled = [t \in TaskIds |-> <<>>]
    /\ registered = TRUE
    /\ putting = NoTask
    /\ threads = [t \in TaskIds |-> 0]
    /\ stop_call = [phase |-> "none", executing |-> {}]
    /\ start_calls = 0
    /\ scheduler = [periodic_tasks |-> <<>>, running |-> FALSE, wake |-> 0,
                    returned |-> [op |-> "none", name |-> "none",
                                  outcome |-> "none", task_id |-> NoTask]]
    /\ clock = 0
    /\ manager = [active_connections |-> {},
                  subscriptions |-> [t \in TaskIds |-> {}]]
    /\ calls = [ev \in Events |-> Idle]
    /\ delivered = [o \in Observers |-> {}]
    /\ websocket = [o \in Observers |-> "new"]
    /\ clear_call = [phase |-> "none", pending |-> {}, enqueued |-> {}, calls |-> 0]

\* The application of main.py: TaskQueue() is unbounded, and the callback
\* (task_event_handler) returns.
Init ==
    /\ Constructed
    /\ callback = "returns"
    /\ maxsize = 0

Next ==
    \/ \E t \in 1..NumTasks, n \in 0..MaxRetriesIn : Submit(t, NORMAL, n, NoTimeout)
    \/ Start
    \/ \E w \in Workers : DequeueGet(w)
    \/ \E w \in Workers : ExecuteStart(w)
    \/ \E w \in Workers : AttemptSucceeds(w)
    \/ \E w \in Workers : AttemptFails(w, "exception")
    \/ \E w \in Workers : Requeue(w)

Spec == Init /\ [][Next]_vars

\* The queue under load: more handles and every canonical priority, each task
\* with one retry so that failed tasks come back through enqueue.
NextQueue ==
    \/ \E t \in 1..NumHandles, p \in Priorities : Submit(t, p, 1, NoTimeout)
    \/ Start
    \/ \E w \in Workers : DequeueGet(w)
    \/ \E w \in Workers : ExecuteStart(w)
    \/ \E w \in Workers : AttemptSucceeds(w)
    \/ \E w \in Workers : AttemptFails(w, "exception")
    \/ \E w \in Workers : Requeue(w)

\* The application with a pool of one or two workers.
InitQueue ==
    /\ Init
    /\ num_workers <= 2

SpecQueue == InitQueue /\ [][NextQueue]_vars

\* A queue constructed with a bound, TaskQueue(maxsize = n) with n > 0.
InitBounded ==
    /\ Constructed
    /\ callback = "returns"
    /\ maxsize \in 1..MaxQueueSize

NextBounded ==
    \/ \E t \in 1..NumTasks, n \in 0..1 : Submit(t, NORMAL, n, NoTimeout)
    \/ Start
    \/ \E w \in Workers : DequeueGet(w)
    \/ \E w \in Workers : ExecuteStart(w)
    \/ \E w \in Workers : AttemptSucceeds(w)
    \/ \E w \in Workers : AttemptFails(w, "exception")
    \/ \E w \in Workers : Requeue(w)
    \/ PutCompletes

SpecBounded == InitBounded /\ [][NextBounded]_vars

\* Tasks with and without a timeout, and the threads that timed-out attempts
\* leave running.
NextTimeout ==
    \/ \E t \in 1..NumTasks, n \in 0..1, to \in {NoTimeout, SomeTimeout} :
           Submit(t, NORMAL, n, to)
    \/ Start
    \/ \E w \in Workers : DequeueGet(w)
    \/ \E w \in Workers : ExecuteStart(w)
    \/ \E w \in Workers : ThreadStarts(w)
    \/ \E w \in Workers : AttemptSucceeds(w)
    \/ \E w \in Workers, kind \in {"exception", "timeout"} : AttemptFails(w, kind)
    \/ \E t \in TaskIds : LateReturn(t)
    \/ \E w \in Workers : Requeue(w)

SpecTimeout == Init /\ [][NextTimeout]_vars

\* Tasks that either have a timeout and no retry, or no timeout and one retry.
NextLive ==
    \/ \E t \in 1..NumTasks : Submit(t, NORMAL, 0, SomeTimeout)
    \/ \E t \in 1..NumTasks : Submit(t, NORMAL, 1, NoTimeout)
    \/ Start
    \/ \E w \in Workers : DequeueGet(w)
    \/ \E w \in Workers : ExecuteStart(w)
    \/ \E w \in Workers : ThreadStarts(w)
    \/ \E w \in Workers : AttemptSucceeds(w)
    \/ \E w \in Workers, kind \in {"exception", "timeout"} : AttemptFails(w, kind)
    \/ \E t \in TaskIds : LateReturn(t)
    \/ \E w \in Workers : Requeue(w)

\* What the event loop and the executors guarantee a worker loop: a ready
\* coroutine is resumed, a get on a non-empty queue returns, a free executor
\* thread takes a submitted call, a sleep ends, and an attempt that has
\* started, or that has a timeout, comes to an end.  Nothing makes the thread
\* of a timed-out attempt return.
WorkerFairness ==
    \A w \in Workers :
        /\ WF_vars(DequeueGet(w))
        /\ WF_vars(ExecuteStart(w))
        /\ WF_vars(ThreadStarts(w))
        /\ WF_vars(AttemptSucceeds(w) \/ AttemptFails(w, "exception")
                                      \/ AttemptFails(w, "timeout"))
        /\ WF_vars(Requeue(w))

SpecLive == Init /\ [][NextLive]_vars /\ WorkerFairness

\* The registry changing under the pool: the function is unregistered, or
\* registered again, while its tasks wait or run.
NextRegistry ==
    \/ \E t \in 1..NumTasks, n \in 0..1 : Submit(t, NORMAL, n, NoTimeout)
    \/ Unregister
    \/ Register
    \/ Start
    \/ \E w \in Workers : DequeueGet(w)
    \/ \E w \in Workers : ExecuteStart(w)
    \/ \E w \in Workers : AttemptSucceeds(w)
    \/ \E w \in Workers, kind \in {"exception", "keyerror"} : AttemptFails(w, kind)
    \/ \E w \in Workers : Requeue(w)

SpecRegistry == Init /\ [][NextRegistry]_vars

\* A pool constructed with no event callback, with one that returns, or with
\* one that raises on every call.
InitCallback ==
    /\ Constructed
    /\ callback \in {"none", "returns", "raises"}
    /\ maxsize = 0

NextCallback ==
    \/ \E t \in 1..NumTasks, n \in 0..1 : Submit(t, NORMAL, n, NoTimeout)
    \/ Start
    \/ \E w \in Workers : DequeueGet(w)
    \/ \E w \in Workers : ExecuteStart(w)
    \/ \E w \in Workers : AttemptSucceeds(w)
    \/ \E w \in Workers : AttemptFails(w, "exception")
    \/ \E w \in Workers : Requeue(w)

SpecCallback == InitCallback /\ [][NextCallback]_vars

\* The pool through one life: started, start() called again, stopped with or
\* without waiting.  start() is not called once stop() has been.
NextPool ==
    \/ \E t \in 1..PoolTasks : Submit(t, NORMAL, 0, NoTimeout)
    \/ \E t \in 1..PoolTasks : Submit(t, NORMAL, 1, SomeTimeout)
    \/ (stop_call.phase = "none" /\ Start)
    \/ StartAgain
    \/ \E wait \in BOOLEAN : Stop(wait)
    \/ StopGathered
    \/ ShutdownReturns
    \/ \E w \in Workers : WorkerExit(w)
    \/ \E w \in Workers : DequeueGet(w)
    \/ \E w \in Workers : ExecuteStart(w)
    \/ \E w \in Workers : ThreadStarts(w)
    \/ \E w \in Workers : AttemptSucceeds(w)
    \/ \E w \in Workers, kind \in {"exception", "timeout", "runtimeerror"} :
           AttemptFails(w, kind)
    \/ \E t \in TaskIds : LateReturn(t)
    \/ \E w \in Workers : Requeue(w)

SpecPool == InitQueue /\ [][NextPool]_vars

\* The scheduler loop over definitions that are added, replaced, disabled and
\* enabled, started at any time (late, for definitions whose fire times have
\* gone by), and the queue its instances go to.
NextScheduler ==
    \/ \E name \in Names, expr \in Crons : AddPeriodicTask(name, expr, CRITICAL)
    \/ \E name \in Names, b \in BOOLEAN : SetEnabled(name, b)
    \/ SchedulerStart
    \/ SchedulerTick
    \/ Pass

\* The pool plays no part in what the scheduler does.
InitScheduler == Init /\ num_workers = 1

SpecScheduler == InitScheduler /\ [][NextScheduler]_vars

\* The scheduler loop and manual triggers, of names that are keys and of names
\* that are not.
NextTrigger ==
    \/ \E name \in Names, expr \in Crons : AddPeriodicTask(name, expr, CRITICAL)
    \/ \E name \in Names : TriggerNow(name)
    \/ SchedulerStart
    \/ SchedulerStop
    \/ SchedulerTick
    \/ Pass

SpecTrigger == InitScheduler /\ [][NextTrigger]_vars

\* Definitions added, with expressions that parse and one that does not,
\* replaced and removed while time goes by.
NextCron ==
    \/ \E name \in Names, expr \in Crons \cup {NotACron}, p \in {CRITICAL, NORMAL} :
           AddPeriodicTask(name, expr, p)
    \/ \E name \in Names : RemovePeriodicTask(name)
    \/ Pass

SpecCron == InitScheduler /\ [][NextCron]_vars

\* The application at work: pool and scheduler started, a definition that
\* fires every minute added while both run, its function succeeding.
NextPeriodic ==
    \/ Start
    \/ SchedulerStart
    \/ (running /\ scheduler.running /\ AddPeriodicTask("report", EveryMinute, NORMAL))
    \/ SchedulerTick
    \/ Pass
    \/ \E w \in Workers : DequeueGet(w)
    \/ \E w \in Workers : ExecuteStart(w)
    \/ \E w \in Workers : AttemptSucceeds(w)

\* Every worker loop goes on: its get returns when the queue holds a task, the
\* event loop resumes it, and the user function returns.
PeriodicFairness ==
    \A w \in Workers :
        /\ WF_vars(DequeueGet(w))
        /\ WF_vars(ExecuteStart(w))
        /\ WF_vars(AttemptSucceeds(w))

SpecPeriodic == InitScheduler /\ [][NextPeriodic]_vars /\ PeriodicFairness

\* The event bus: observers connect, subscribe, break and leave while the
\* handler is called for the events of the workers.
NextBus ==
    \/ \E ev \in Events, t \in 1..NumTasks : HandlerStart(ev, t)
    \/ \E ev \in Events : SendReturns(ev)
    \/ \E o \in Observers : Connect(o)
    \/ \E o \in Observers : Break(o)
    \/ \E o \in Observers : Close(o)
    \/ \E o \in Observers, t \in 1..WatchedTasks : Subscribe(o, t)
    \/ \E o \in Observers, t \in 1..WatchedTasks : Unsubscribe(o, t)

SpecBus == InitScheduler /\ [][NextBus]_vars

\* The pool of main.py with its callback, task_event_handler: _emit_event
\* awaits the call, so a worker loop goes on from an event only when the call
\* for it has ended.  An event a worker has emitted and for which the handler
\* has not been entered yet:
Pending(t) ==
    Len(events[t]) > Cardinality({ev \in Events : calls[ev].phase # "none"
                                                   /\ calls[ev].task = t})

\* `await self.event_callback(event_type, task)` has returned or raised for
\* every event emitted so far.
CallbackReturned ==
    /\ \A t \in TaskIds : ~Pending(t)
    /\ \A ev \in Events : calls[ev].phase \in {"none", "returned", "raised"}

\* One worker, one task without retries (two events), and observers that
\* connect and may stop reading.
NextSlow ==
    \/ Submit(1, NORMAL, 0, NoTimeout)
    \/ Start
    \/ \E w \in Workers : CallbackReturned /\ DequeueGet(w)
    \/ \E w \in Workers : CallbackReturned /\ ExecuteStart(w)
    \/ \E w \in Workers : CallbackReturned /\ AttemptSucceeds(w)
    \/ \E w \in Workers : CallbackReturned /\ AttemptFails(w, "exception")
    \/ \E ev \in Events, t \in TaskIds : Pending(t) /\ HandlerStart(ev, t)
    \/ \E ev \in Events : SendReturns(ev)
    \/ \E o \in Observers : Connect(o)
    \/ \E o \in Observers : Stall(o)

\* The event loop resumes every coroutine that is ready: the worker loop, and
\* the handler's call when the send it awaits has completed.  Nothing makes
\* the send to an observer that has stopped reading complete.
SlowFairness ==
    /\ \A w \in Workers :
          /\ WF_vars(CallbackReturned /\ DequeueGet(w))
          /\ WF_vars(CallbackReturned /\ ExecuteStart(w))
          /\ WF_vars(CallbackReturned /\ (AttemptSucceeds(w) \/ AttemptFails(w, "exception")))
    /\ \A ev \in Events :
          /\ WF_vars(\E t \in TaskIds : Pending(t) /\ HandlerStart(ev, t))
          /\ WF_vars(SendReturns(ev))

SpecSlow == InitScheduler /\ [][NextSlow]_vars /\ SlowFairness

\* The queue cleared under the pool: clients submit tasks with one retry, a
\* client calls clear(), the workers go on.
NextClear ==
    \/ \E t \in 1..NumTasks : Submit(t, NORMAL, 1, NoTimeout)
    \/ (clear_call.calls < MaxClears /\ ClearBegin)
    \/ ClearGet
    \/ ClearDone
    \/ Start
    \/ \E w \in Workers : DequeueGet(w)
    \/ \E w \in Workers : ExecuteStart(w)
    \/ \E w \in Workers : AttemptSucceeds(w)
    \/ \E w \in Workers : AttemptFails(w, "exception")
    \/ \E w \in Workers : Requeue(w)

SpecClear == InitQueue /\ [][NextClear]_vars

\* The pool stopped and started again, once stop() has returned: tasks without
\* retries whose function returns a value.  (Without timeouts no thread of the
\* executor outlives its loop, so shutdown(wait=True) never has to wait.)
NextRestart ==
    \/ \E t \in 1..PoolTasks : Submit(t, NORMAL, 0, NoTimeout)
    \/ (stop_call.phase \in {"none", "signalled", "joined"} /\ Start)
    \/ \E wait \in BOOLEAN : Stop(wait)
    \/ StopGathered
    \/ \E w \in Workers : WorkerExit(w)
    \/ \E w \in Workers : DequeueGet(w)
    \/ \E w \in Workers : ExecuteStart(w)
    \/ \E w \in Workers : AttemptSucceeds(w)
    \/ \E w \in Workers : AttemptFails(w, "runtimeerror")

SpecRestart == InitQueue /\ [][NextRestart]_vars

\* ------------------------------------------------------------------ claims
Terminal == {"COMPLETED", "FAILED"}

\* C1: for every task with max_retries = N the registered function is invoked
\* at most N + 1 times in total.
C1_RetryBound ==
    \A t \in TaskIds : task[t].created => invocations[t] <= task[t].max_retries + 1

\* C1 witness: a task with N = 1 has used all N + 1 = 2 invocations and failed.
C1_Witness ==
    \E t \in TaskIds : /\ task[t].status = "FAILED"
                       /\ task[t].max_retries = 1
                       /\ invocations[t] = 2

\* C2: a task with max_retries = N whose every attempt fails is attempted
\* exactly N + 1 times before it is marked FAILED.
C2_ExactAttemptsBeforeFailed ==
    \A t \in TaskIds :
        task[t].status = "FAILED" => invocations[t] = task[t].max_retries + 1

\* C3: each failed attempt (a step that takes a task from RUNNING to RETRYING
\* or to FAILED) increases the task's retry_count by exactly 1, which is what
\* makes the invocation count of a finished task 1 + retry_count.
C3_FailedAttemptAddsOne ==
    [][\A t \in TaskIds :
          (task[t].status = "RUNNING" /\ task'[t].status \in {"RETRYING", "FAILED"})
              => task'[t].retry_count = task[t].retry_count + 1]_vars

\* C4: whenever a task's status is FAILED, its retry_count equals max_retries + 1.
C4_FailedRetryCount ==
    \A t \in TaskIds :
        task[t].status = "FAILED" => task[t].retry_count = task[t].max_retries + 1

\* C5: whenever a task's status is COMPLETED, its retry_count is at most max_retries.
C5_CompletedRetryCount ==
    \A t \in TaskIds :
        task[t].status = "COMPLETED" => task[t].retry_count <= task[t].max_retries

\* C6: in every reachable state a task whose status is RETRYING has
\* retry_count <= max_retries.
C6_RetryingWithinBudget ==
    \A t \in TaskIds :
        task[t].status = "RETRYING" => task[t].retry_count <= task[t].max_retries

\* C7: the backoff slept before the k-th retry of a task is 2^(k-1) seconds
\* (1, 2, 4, 8, ...), and the task is not in the queue until that sleep is over.
C7_BackoffSchedule ==
    /\ \A t \in TaskIds : \A k \in 1..Len(backoffs[t]) : backoffs[t][k] = Pow2(k - 1)
    /\ \A w \in Workers : pc[w] = "backoff" => ~InHeap(held[w])

\* C8: every successful dequeue returns a task whose priority value is minimal
\* among all tasks held in the priority structure at that moment.
C8_DequeueMinimal ==
    [][\A w \in Workers :
          (pc[w] = "dequeue" /\ pc'[w] = "got")
              => \A i \in 1..Len(heap) :
                     task[held'[w]].priority <= task[heap[i]].priority]_vars

\* C8 witness: a CRITICAL task was dequeued ahead of a LOW task that had been
\* enqueued before it, out of a queue that held three handles, by a pool that
\* had already taken a task out of the queue.
C8_Witness ==
    \E w \in Workers :
        /\ pc[w] = "got"
        /\ task[held[w]].priority = CRITICAL
        /\ Len(heap) >= 2
        /\ \E i \in 1..Len(heap) :
               task[heap[i]].priority = LOW /\ heap[i] < held[w]
        /\ metrics.total_dequeued >= 1

\* C9: at no time do two worker loops hold the same task instance: a handle is
\* in the queue at most once, and a task a worker holds is not in the queue
\* until that worker has re-enqueued it.
C9_AtMostOneWorker ==
    /\ \A w1, w2 \in Workers :
           (w1 # w2 /\ held[w1] # NoTask) => held[w1] # held[w2]
    /\ \A w \in Workers : held[w] # NoTask => ~InHeap(held[w])
    /\ \A i, j \in 1..Len(heap) : i # j => heap[i] # heap[j]

\* C9 witness: two workers run two different tasks at once, one of them on a
\* retry attempt (it went through the queue a second time).
C9_Witness ==
    \E w1, w2 \in Workers :
        /\ w1 # w2
        /\ pc[w1] = "invoked" /\ pc[w2] = "invoked"
        /\ task[held[w1]].retry_count > 0

Edges ==
    {<<"PENDING", "QUEUED">>, <<"QUEUED", "RUNNING">>, <<"RUNNING", "COMPLETED">>,
     <<"RUNNING", "FAILED">>, <<"RUNNING", "RETRYING">>, <<"RETRYING", "QUEUED">>}

\* C10: every status change of a task follows one of the lifecycle edges, and a
\* task that is COMPLETED or FAILED never changes status and is never put back
\* in the queue.
C10_Lifecycle ==
    [][\A t \in TaskIds :
          /\ task'[t].status # task[t].status
                 => <<task[t].status, task'[t].status>> \in Edges
          /\ task[t].status \in Terminal
                 => (task'[t].status = task[t].status /\ ~InSeq(heap', t))]_vars

\* C10 witness: one task has gone round the retry cycle and ended FAILED while
\* another ended COMPLETED.
C10_Witness ==
    \E t, u \in TaskIds :
        /\ task[t].status = "FAILED" /\ task[t].retry_count > 1
        /\ task[u].status = "COMPLETED" /\ task[u].retry_count > 0

Count(seq, e) == Cardinality({i \in 1..Len(seq) : seq[i] = e})

TerminalEvents == {"task_completed", "task_failed"}

\* C11: the events passed to the callback for one task are
\* (task_started task_retrying)* task_started and then exactly one terminal
\* event (task_completed or task_failed), after which no event follows; a task
\* that succeeds on its first attempt has exactly task_started, task_completed.
C11_EventOrder ==
    \A t \in TaskIds :
        LET ev == events[t]
        IN  /\ \A i \in 1..Len(ev) :
                   /\ i % 2 = 1 => ev[i] = "task_started"
                   /\ i % 2 = 0 => ev[i] \in {"task_retrying"} \cup TerminalEvents
                   /\ ev[i] \in TerminalEvents => i = Len(ev)
            /\ task[t].status = "COMPLETED"
                   => (ev # <<>> /\ ev[Len(ev)] = "task_completed")
            /\ task[t].status = "FAILED"
                   => (ev # <<>> /\ ev[Len(ev)] = "task_failed")
            /\ (task[t].status = "COMPLETED" /\ invocations[t] = 1)
                   => ev = <<"task_started", "task_completed">>

\* C11 witness: one task was retried and then completed, another failed after
\* a retry, each with its full event sequence.
C11_Witness ==
    \E t, u \in TaskIds :
        /\ events[t] = <<"task_started", "task_retrying", "task_started", "task_completed">>
        /\ events[u] = <<"task_started", "task_retrying", "task_started", "task_failed">>

\* C12: for every task that has ended FAILED, the number of task_retrying
\* events emitted for it equals its final retry_count - 1.
C12_RetryingEventsOfFailed ==
    \A t \in TaskIds :
        task[t].status = "FAILED"
            => Count(events[t], "task_retrying") = task[t].retry_count - 1

\* C13: an enqueue on a queue with a bound (maxsize > 0) that already holds
\* maxsize handles returns false to its caller and adds no handle, and it does
\* not block the caller: the step of a submission or of a worker's re-enqueue
\* that meets a full queue leaves the queue as it was and leaves no put pending.
C13_FullEnqueueReturnsFalse ==
    [][(/\ QueueFull
        /\ \/ \E t \in TaskIds : ~task[t].created /\ task'[t].created
           \/ \E w \in Workers : pc[w] = "backoff" /\ pc'[w] # "backoff")
           => (putting' = NoTask /\ heap' = heap)]_vars

ContainsTimeout(msg) ==
    \E i \in 1..Len(msg) : msg[i] \in {"timeout", "Timeout", "TIMEOUT"}

\* C15: an attempt of a task with timeout T on which wait_for gives up is
\* handled as a failure with the message 'Task exceeded timeout of <T>s' and
\* goes through the retry policy (RETRYING while retries remain, else FAILED);
\* a task whose every attempt timed out and that has ended is FAILED with an
\* error that contains 'timeout'.
C15_TimeoutIsFailure ==
    /\ [](\A t \in TaskIds :
             (/\ task[t].status \in Terminal
              /\ handled[t] # <<>>
              /\ Len(handled[t]) = Count(events[t], "task_started")
              /\ \A i \in 1..Len(handled[t]) : handled[t][i] = TimeoutMessage(task[t]))
                 => /\ task[t].status = "FAILED"
                    /\ task[t].error = <<"Task exceeded ", "timeout", " of ", "1", "s">>
                    /\ ContainsTimeout(task[t].error))
    /\ [][\A t \in TaskIds :
             threads'[t] > threads[t]
                 => /\ task[t].status = "RUNNING"
                    /\ handled'[t] = Append(handled[t], TimeoutMessage(task[t]))
                    /\ task'[t].status =
                           IF task[t].retry_count + 1 > task[t].max_retries
                           THEN "FAILED" ELSE "RETRYING"]_vars

\* C15 witness: a task with timeout 1 and max_retries = 1 timed out on both of
\* its attempts, each of which had started in a thread, and is FAILED.
C15_Witness ==
    \E t \in TaskIds :
        /\ task[t].status = "FAILED" /\ task[t].max_retries = 1
        /\ task[t].timeout = SomeTimeout
        /\ handled[t] = <<TimeoutMessage(task[t]), TimeoutMessage(task[t])>>
        /\ invocations[t] = 2

KeyErrorMessage == <<"KeyError", ": ", "Task not found in registry">>

\* C16: when a worker executes a task whose func_name is not in the registry,
\* the attempt is a failure handled by the retry policy: RETRYING, a backoff
\* and a re-enqueue while retries remain, FAILED with the KeyError's message
\* once they are exhausted; the function is not invoked, and the worker loop
\* goes on (no task is left RUNNING or RETRYING without the worker that holds it).
C16_MissingFunctionIsFailure ==
    /\ [][\A w \in Workers :
             (pc[w] = "unresolved" /\ pc'[w] # "unresolved")
                 => LET t == held[w]
                    IN  /\ invocations'[t] = invocations[t]
                        /\ IF task[t].retry_count + 1 > task[t].max_retries
                           THEN /\ task'[t].status = "FAILED"
                                /\ task'[t].error = KeyErrorMessage
                                /\ pc'[w] = "dequeue"
                           ELSE /\ task'[t].status = "RETRYING"
                                /\ pc'[w] = "backoff" /\ held'[w] = t]_vars
    /\ [](\A t \in TaskIds :
             /\ task[t].status = "RUNNING"
                    => \E w \in Workers :
                           held[w] = t /\ pc[w] \in {"invoked", "unresolved"}
             /\ task[t].status = "RETRYING"
                    => \E w \in Workers : held[w] = t /\ pc[w] = "backoff")

\* C16 witness: a task with one retry found its function missing on both
\* attempts and is FAILED without its function ever invoked, and the worker
\* has dequeued again since.
C16_Witness ==
    \E t \in TaskIds :
        /\ task[t].status = "FAILED" /\ task[t].max_retries = 1
        /\ handled[t] = <<KeyErrorMessage, KeyErrorMessage>>
        /\ invocations[t] = 0
        /\ num_workers = 1 /\ metrics.total_dequeued = 3

FunctionError == <<"ValueError", ": ", "raised by the function">>

\* C17: an exception raised by the event callback never changes a task's
\* outcome, and the worker loop continues.  Whatever the callback does, a
\* RUNNING task is held by a worker that awaits its function and a RETRYING
\* one by a worker in its backoff; the failures handled are those of the
\* function alone, one per invocation that did not complete; a COMPLETED task
\* has the function's result and no error; a FAILED one has the function's error.
C17_CallbackNeverChangesOutcome ==
    \A t \in TaskIds :
        /\ task[t].status = "RUNNING"
               => \E w \in Workers : held[w] = t /\ pc[w] = "invoked"
        /\ task[t].status = "RETRYING"
               => \E w \in Workers : held[w] = t /\ pc[w] = "backoff"
        /\ \A i \in 1..Len(handled[t]) : handled[t][i] = FunctionError
        /\ invocations[t] = Len(handled[t])
                              + (IF task[t].status \in {"RUNNING", "COMPLETED"} THEN 1 ELSE 0)
        /\ task[t].status = "COMPLETED"
               => task[t].result = ReturnValue /\ task[t].error = NoError
        /\ task[t].status = "FAILED"
               => task[t].result = NoResult /\ task[t].error = FunctionError
        /\ task[t].status \notin Terminal => task[t].result = NoResult

\* C17 witness: with a callback that raises on every event, one task was
\* retried and completed and another was retried and failed.
C17_Witness ==
    \E t, u \in TaskIds :
        /\ callback = "raises"
        /\ task[t].status = "COMPLETED" /\ invocations[t] = 2
        /\ events[t] = <<"task_started", "task_retrying", "task_started", "task_completed">>
        /\ task[u].status = "FAILED" /\ invocations[u] = 2

\* C18: in every reachable state a stored task's completed_at is set if and
\* only if its status is COMPLETED or FAILED.
C18_CompletedAtIffTerminal ==
    \A t \in TaskIds :
        t \in store => (task[t].completed_at <=> task[t].status \in Terminal)

\* C18 witness: the store holds a task that failed after a retry, with
\* completed_at set, and a task that is RETRYING, without it.
C18_Witness ==
    \E t, u \in TaskIds :
        /\ t \in store /\ task[t].status = "FAILED" /\ task[t].completed_at
        /\ task[t].retry_count > 1
        /\ u \in store /\ task[u].status = "RETRYING" /\ ~task[u].completed_at

\* C19: whenever a task's status is RETRYING, its error field holds the
\* message of its most recent failed attempt.
C19_RetryingHoldsLastError ==
    \A t \in TaskIds :
        task[t].status = "RETRYING"
            => (handled[t] # <<>> /\ task[t].error = handled[t][Len(handled[t])])

\* C20: a task's result is set only while its status is COMPLETED; when an
\* attempt has timed out and the function later returns in its executor
\* thread, the late value changes neither the task's result nor its status.
C20_ResultOnlyWhenCompleted ==
    /\ [](\A t \in TaskIds : task[t].result # NoResult => task[t].status = "COMPLETED")
    /\ [][\A t \in TaskIds :
             threads'[t] < threads[t]
                 => (task'[t].result = task[t].result /\ task'[t].status = task[t].status)]_vars

\* C20 witness: the thread of a timed-out attempt has returned after its task
\* was marked FAILED, and the thread of another timed-out attempt is still
\* running while its task waits for its retry.
C20_Witness ==
    \E t, u \in TaskIds :
        /\ task[t].status = "FAILED" /\ handled[t] = <<TimeoutMessage(task[t])>>
        /\ invocations[t] = 1 /\ threads[t] = 0
        /\ task[u].status \in {"RETRYING", "QUEUED"} /\ threads[u] = 1

\* No enqueue is inside its put and no dequeue is between its get and its
\* metrics update.
NoQueueCallInProgress == putting = NoTask /\ \A w \in Workers : pc[w] # "got"

\* C21: once every submitted task is COMPLETED or FAILED and no enqueue or
\* dequeue is in progress, the metrics field current_size is 0 and equals
\* size().
C21_QuiescentSizeIsZero ==
    (/\ \E t \in TaskIds : task[t].created
     /\ \A t \in TaskIds : task[t].created => task[t].status \in Terminal
     /\ NoQueueCallInProgress)
        => (metrics.current_size = 0 /\ metrics.current_size = size)

\* C21 witness: every task of the run was submitted and at least one was
\* re-enqueued for a retry; all of them are terminal, every enqueue has been
\* matched by a dequeue, and no queue call is in progress.
C21_Witness ==
    /\ \A t \in 1..NumTasks : task[t].created /\ task[t].status \in Terminal
    /\ NoQueueCallInProgress
    /\ metrics.total_enqueued > NumTasks
    /\ metrics.total_dequeued = metrics.total_enqueued
    /\ metrics.current_size = 0

\* The worker loops that exist.
Loops == {w \in Workers : pc[w] # "off"}

\* C27: start() on a pool that is already running is a no-op: it creates no
\* worker loop and leaves the existing ones where they are, so that exactly
\* num_workers loops exist after any number of consecutive start() calls.
C27_StartIsIdempotent ==
    /\ []((start_calls >= 1 /\ stop_call.phase = "none")
              => (running /\ Cardinality(Loops) = num_workers))
    /\ [][(running /\ start_calls' > start_calls)
              => (running' /\ pc' = pc /\ held' = held /\ task' = task)]_vars

\* C27 witness: start() has been called MaxStarts times on a pool of fewer
\* loops than the model has slots, and a loop is in the middle of an attempt.
C27_Witness ==
    /\ start_calls = MaxStarts
    /\ stop_call.phase = "none"
    /\ num_workers < MaxWorkers
    /\ \E w \in Workers : pc[w] = "invoked"

IsTick == scheduler.running /\ scheduler'.wake # scheduler.wake

\* The definitions that are enabled and whose next_run has come.
EnabledAndDue ==
    {i \in 1..Len(scheduler.periodic_tasks) :
        /\ scheduler.periodic_tasks[i].enabled
        /\ scheduler.periodic_tasks[i].next_run <= clock}

\* The multiples of a period are the fire times.
IsFireTime(expr, time) == time % CronPeriod(expr) = 0

\* C22: on each scheduler tick, for every definition that is enabled and has
\* next_run <= now, exactly one task instance is enqueued, last_run is set,
\* run_count grows by exactly 1 and next_run becomes the first fire time after
\* now, however many fire times were missed; definitions that are disabled or
\* not yet due are left unchanged and enqueue nothing.
C22_TickFiresEachDueOnce ==
    [][IsTick =>
         LET defs == scheduler.periodic_tasks
             after == scheduler'.periodic_tasks
             fired == Cardinality(EnabledAndDue)
         IN  /\ Len(after) = Len(defs)
             /\ \A i \in 1..Len(defs) :
                   IF i \in EnabledAndDue
                   THEN /\ after[i].run_count = defs[i].run_count + 1
                        /\ after[i].last_run = clock'
                        /\ after[i].next_run > clock'
                        /\ after[i].next_run <= clock' + CronPeriod(defs[i].cron_expression)
                        /\ IsFireTime(defs[i].cron_expression, after[i].next_run)
                        /\ after[i] = [defs[i] EXCEPT !.run_count = after[i].run_count,
                                                      !.last_run = after[i].last_run,
                                                      !.next_run = after[i].next_run]
                   ELSE after[i] = defs[i]
             /\ Cardinality(Uncreated(task)) - Cardinality(Uncreated(task')) = fired
             /\ Len(heap') = Len(heap) + fired
             /\ metrics'.total_enqueued = metrics.total_enqueued + fired
             /\ \A t \in Uncreated(task) \ Uncreated(task') :
                   /\ task'[t].status = "QUEUED" /\ t \in store' /\ InSeq(heap', t)
                   /\ \E i \in EnabledAndDue :
                         task'[t].cron_expression = defs[i].cron_expression
             /\ \A t \in TaskIds \ Uncreated(task) : task'[t] = task[t]]_vars

\* C22 witness: the loop has just scanned, at least three minutes into the
\* run: one definition has fired at this very second, for the first time, and
\* a disabled one, due since the first minute, has never run; a single
\* instance is in the queue.
C22_Witness ==
    /\ scheduler.running /\ scheduler.wake = clock + SleepSeconds
    /\ clock >= 3 * Minute
    /\ Len(scheduler.periodic_tasks) = 2
    /\ \E i, j \in 1..2 :
          /\ scheduler.periodic_tasks[i].enabled
          /\ scheduler.periodic_tasks[i].run_count = 1
          /\ scheduler.periodic_tasks[i].last_run = clock
          /\ scheduler.periodic_tasks[i].next_run > clock
          /\ ~scheduler.periodic_tasks[j].enabled
          /\ scheduler.periodic_tasks[j].next_run = Minute
          /\ scheduler.periodic_tasks[j].run_count = 0
    /\ metrics.total_enqueued = 1 /\ Len(heap) = 1

\* C23: after every mark_executed by the scheduler loop, the definition's new
\* next_run is strictly later than its previous next_run and strictly later
\* than the time of the mark.
C23_NextRunAdvances ==
    [][IsTick =>
         \A i \in 1..Len(scheduler.periodic_tasks) :
             scheduler'.periodic_tasks[i].run_count > scheduler.periodic_tasks[i].run_count
                 => /\ scheduler'.periodic_tasks[i].next_run
                          > scheduler.periodic_tasks[i].next_run
                    /\ scheduler'.periodic_tasks[i].next_run
                          > scheduler'.periodic_tasks[i].last_run]_vars

\* C23 witness: a definition that has been marked twice, the second time at
\* the very second of its fire time.
C23_Witness ==
    \E i \in 1..Len(scheduler.periodic_tasks) :
        /\ scheduler.periodic_tasks[i].run_count = 2
        /\ IsFireTime(scheduler.periodic_tasks[i].cron_expression,
                      scheduler.periodic_tasks[i].last_run)
        /\ scheduler.periodic_tasks[i].next_run > scheduler.periodic_tasks[i].last_run

\* A call of trigger_now has returned.
IsTrigger ==
    scheduler'.returned.op = "trigger_now" /\ scheduler'.returned # scheduler.returned

\* C24: trigger_now(name) on an existing definition enqueues exactly one fresh
\* task instance (a new task_id, retry_count 0, the template's priority,
\* max_retries, timeout and cron_expression), returns its id and leaves the
\* definition's last_run, next_run and run_count unchanged; on an unknown name
\* it returns nothing and enqueues nothing.
C24_TriggerNowEnqueuesOne ==
    [][IsTrigger =>
         LET i == Find(scheduler.periodic_tasks, scheduler'.returned.name)
             t == scheduler'.returned.task_id
         IN  /\ scheduler'.periodic_tasks = scheduler.periodic_tasks
             /\ IF i # 0
                THEN /\ scheduler'.returned.outcome = "task_id"
                     /\ t \in Uncreated(task)
                     /\ task'[t] = [created |-> TRUE, status |-> "QUEUED",
                                    priority |-> scheduler.periodic_tasks[i].priority,
                                    retry_count |-> 0,
                                    max_retries |-> scheduler.periodic_tasks[i].max_retries,
                                    timeout |-> scheduler.periodic_tasks[i].timeout,
                                    result |-> NoResult, error |-> NoError,
                                    started_at |-> FALSE, completed_at |-> FALSE,
                                    cron_expression |->
                                        scheduler.periodic_tasks[i].cron_expression]
                     /\ \A u \in TaskIds \ {t} : task'[u] = task[u]
                     /\ store' = store \cup {t}
                     /\ Len(heap') = Len(heap) + 1 /\ InSeq(heap', t)
                     /\ metrics'.total_enqueued = metrics.total_enqueued + 1
                ELSE /\ scheduler'.returned.outcome = "None"
                     /\ scheduler'.returned.task_id = NoTask
                     /\ UNCHANGED <<task, store, heap, metrics>>]_vars

\* C24 witness: trigger_now has returned the id of an instance of a definition
\* the loop had fired once before; both instances are in the queue and the
\* definition still says it has run once.
C24_Witness ==
    /\ scheduler.returned.op = "trigger_now"
    /\ scheduler.returned.outcome = "task_id"
    /\ LET i == Find(scheduler.periodic_tasks, scheduler.returned.name)
       IN  /\ i # 0
           /\ scheduler.periodic_tasks[i].run_count = 1
           /\ scheduler.periodic_tasks[i].last_run < clock
           /\ task[scheduler.returned.task_id].cron_expression
                 = scheduler.periodic_tasks[i].cron_expression
    /\ task[scheduler.returned.task_id].status = "QUEUED"
    /\ metrics.total_enqueued = 2 /\ Len(heap) = 2

\* C25: add_periodic_task with a cron expression that cannot be parsed fails
\* with an error and leaves the map of definitions unchanged, an existing
\* definition under the same name included, so that no stored definition has
\* such an expression; with a valid expression the definition is stored under
\* the name, new or in the place of the one that was there, and no other.
C25_InvalidCronRejected ==
    /\ [](\A i \in 1..Len(scheduler.periodic_tasks) :
              scheduler.periodic_tasks[i].cron_expression # NotACron)
    /\ [][(scheduler'.returned.outcome = "ValueError"
             /\ scheduler'.returned # scheduler.returned)
              => scheduler'.periodic_tasks = scheduler.periodic_tasks]_vars
    /\ [][(/\ scheduler'.returned.op = "add_periodic_task"
           /\ scheduler'.returned.outcome = "stored"
           /\ scheduler' # scheduler)
              => LET name == scheduler'.returned.name
                     defs == scheduler.periodic_tasks
                     after == scheduler'.periodic_tasks
                     i == Find(after, name)
                 IN  /\ i # 0
                     /\ i = IF Find(defs, name) # 0 THEN Find(defs, name) ELSE Len(defs) + 1
                     /\ Len(after) = IF Find(defs, name) # 0 THEN Len(defs) ELSE Len(defs) + 1
                     /\ \A j \in 1..Len(defs) : j # i => after[j] = defs[j]
                     /\ after[i].cron_expression \in {EveryMinute, EveryTwoMinutes}
                     /\ after[i].run_count = 0 /\ after[i].last_run = NoRun
                     /\ after[i].enabled /\ after[i].next_run > clock]_vars

\* C25 witness: an add with an expression that does not parse has just failed
\* under a name that holds a definition, stored some seconds ago, and the other
\* name holds one too.
C25_Witness ==
    /\ scheduler.returned.op = "add_periodic_task"
    /\ scheduler.returned.outcome = "ValueError"
    /\ Len(scheduler.periodic_tasks) = 2
    /\ LET i == Find(scheduler.periodic_tasks, scheduler.returned.name)
       IN  /\ i # 0
           /\ scheduler.periodic_tasks[i].cron_expression = EveryTwoMinutes
           /\ scheduler.periodic_tasks[i].priority = NORMAL
           /\ scheduler.periodic_tasks[i].next_run <= clock

\* C26: with the scheduler and the worker pool running, an enabled definition
\* with cron "* * * * *" fires within about one minute of being added: its
\* next_run is at most a minute after the add, its run_count is at least 1
\* before TestSlack seconds have gone by since next_run (the 65 seconds of the
\* test), by when an instance has been enqueued; and every instance reaches
\* COMPLETED when its function succeeds.
C26_FiresWithinAMinute ==
    /\ [](\A i \in 1..Len(scheduler.periodic_tasks) :
              (scheduler.periodic_tasks[i].enabled
                 /\ scheduler.periodic_tasks[i].run_count = 0)
                  => clock < scheduler.periodic_tasks[i].next_run + TestSlack)
    /\ [](\A i \in 1..Len(scheduler.periodic_tasks) :
              scheduler.periodic_tasks[i].run_count >= 1
                  => \E t \in TaskIds : task[t].cron_expression = EveryMinute)
    /\ [][scheduler'.periodic_tasks # scheduler.periodic_tasks
             => \A i \in 1..Len(scheduler'.periodic_tasks) :
                    scheduler'.periodic_tasks[i].run_count = 0
                        => scheduler'.periodic_tasks[i].next_run <= clock' + Minute]_vars
    /\ \A t \in TaskIds :
          (task[t].cron_expression = EveryMinute) ~> (task[t].status = "COMPLETED")

\* C26 witness: a minute and TestSlack seconds after a definition was added in
\* the first minute of the run, it has run, and its first instance is
\* COMPLETED.
C26_Witness ==
    /\ clock = Minute + TestSlack
    /\ Len(scheduler.periodic_tasks) = 1
    /\ scheduler.periodic_tasks[1].run_count >= 1
    /\ scheduler.periodic_tasks[1].last_run <= Minute + SleepSeconds + MaxLatency
    /\ task[1].cron_expression = EveryMinute /\ task[1].status = "COMPLETED"

\* An observer that has been connected, with a working connection, since
\* before the event was emitted
ConnectedThroughout(o, ev) ==
    /\ o \in calls[ev].at_emit
    /\ o \in manager.active_connections
    /\ websocket[o] = "open"

\* C29: for every event emitted by a worker, once the handler's call for it is
\* over, every observer that was connected when the event was emitted and to
\* which a send succeeds (it is still connected and its connection works) has
\* received the event through broadcast.
C29_BroadcastReachesConnected ==
    \A ev \in Events, o \in Observers :
        (calls[ev].phase \in {"returned", "raised"} /\ ConnectedThroughout(o, ev))
            => [event |-> ev, task |-> calls[ev].task, by |-> "broadcast"] \in delivered[o]

\* C30: an observer that holds a subscription receives only events of the
\* tasks it is subscribed to, never events of other tasks.
C30_SubscriberReceivesOnlyItsTask ==
    [][\A o \in Observers : \A msg \in delivered'[o] \ delivered[o] :
          (\E t \in TaskIds : o \in manager.subscriptions[t])
              => o \in manager.subscriptions[msg.task]]_vars

\* C31: an observer whose send does not complete is not waited on: every
\* task a worker has started still comes to COMPLETED or FAILED, and every
\* other connected observer a broadcast iterates still receives the event.
C31_StalledObserverIsNotWaitedOn ==
    /\ \A t \in TaskIds : (task[t].status = "RUNNING") ~> (task[t].status \in Terminal)
    /\ \A ev \in Events, o \in Observers :
          (calls[ev].phase = "broadcast" /\ o \in calls[ev].start /\ websocket[o] = "open")
              ~> \/ [event |-> ev, task |-> calls[ev].task, by |-> "broadcast"] \in delivered[o]
                 \/ websocket[o] # "open"

\* C32: a fan-out during whose sends the set of observers changes still
\* completes without error (no call of the handler ends in an exception), and
\* when it has completed every observer connected throughout has the event.
C32_FanOutToleratesChanges ==
    \A ev \in Events :
        /\ calls[ev].phase # "raised"
        /\ calls[ev].phase = "returned" =>
              \A o \in Observers :
                  ConnectedThroughout(o, ev) =>
                      \E msg \in delivered[o] : msg.event = ev /\ msg.by = "broadcast"

\* The step in which a call of TaskQueue.clear() returns
IsClear == clear_call.phase = "loop" /\ clear_call'.phase = "none"

\* C33: a task that enqueue has stored stays in the store, under its id and as
\* the same created task, through every status transition and retry; only a
\* step of clear() removes a store entry.
C33_StoredUntilCleared ==
    [][\A t \in store : \/ t \in store' /\ task'[t].created
                        \/ IsClear]_vars

\* A stored task that has been retried and has reached a final status.
C33_Witness ==
    \E t \in store : /\ task[t].status \in Terminal
                     /\ Len(backoffs[t]) > 0
                     /\ Len(events[t]) > 2

\* C34: when clear() returns, no handle and no store entry is left and
\* current_size is 0, total_enqueued and total_dequeued being what they were;
\* and a task that was pending in the queue when clear() was called is never
\* dispatched to a worker (it never leaves QUEUED).
C34_ClearDropsEverything ==
    /\ [][IsClear => /\ heap' = <<>>
                     /\ store' = {}
                     /\ metrics' = [metrics EXCEPT !.current_size = 0]]_vars
    /\ [](\A t \in clear_call.pending : task[t].status = "QUEUED")

\* The invocations of the user function for task t that are running in threads
\* of the blocking executor: the one a worker loop awaits, and those of
\* attempts wait_for has given up on.
InFlight(t) ==
    Cardinality({w \in Workers : pc[w] = "invoked" /\ held[w] = t}) + threads[t]

\* C35: at most one invocation of the user function for a task is in flight in
\* the blocking executor at any time.
C35_OneInvocationInFlight ==
    \A t \in TaskIds : InFlight(t) <= 1

\* C36: at most num_workers worker loops are active at any time, whatever the
\* sequence of start() and stop(wait) calls.
C36_AtMostNumWorkersLoops ==
    Cardinality(Loops) <= num_workers

\* C37: a pool started again after stop(wait=True) executes tasks normally: a
\* task whose function returns a value is never FAILED nor RETRYING, and once
\* an attempt of it has ended it is COMPLETED with that value.
C37_RestartedPoolExecutes ==
    (stop_call.phase \in {"none", "gather", "joined"}) =>
        \A t \in TaskIds :
            /\ task[t].status \notin {"FAILED", "RETRYING"}
            /\ handled[t] = <<>>
            /\ task[t].completed_at =>
                   (task[t].status = "COMPLETED" /\ task[t].result = ReturnValue)

\* C38: once clear() has returned, no task that had been enqueued before the
\* call is in the store or in the queue, whatever its status was at the call.
C38_ClearedTasksStayOut ==
    clear_call.phase = "none" =>
        \A t \in clear_call.enqueued : t \notin store /\ ~InHeap(t)

\* The tasks a worker is occupied with: RUNNING or RETRYING
Occupying == {t \in TaskIds : task[t].status \in {"RUNNING", "RETRYING"}}

\* C39: with the pool started once, the tasks that are RUNNING or RETRYING are
\* never more than num_workers: each of them is held by a worker loop that is
\* inside its attempt or its backoff sleep, and no loop holds two.
C39_OccupiedWithinWorkers ==
    /\ Cardinality(Occupying) <= num_workers
    /\ \A t \in Occupying :
          \E w \in Workers : held[w] = t /\ pc[w] \notin {"off", "dequeue", "inget", "got"}
    /\ \A t \in TaskIds :
          task[t].status = "RETRYING" => \E w \in Workers : held[w] = t /\ pc[w] = "backoff"

\* C39 witness: the only worker sleeps in the backoff of a task while another
\* task waits in the queue.
C39_Witness ==
    /\ num_workers = 1
    /\ \E w \in Workers, t \in TaskIds :
          /\ pc[w] = "backoff"
          /\ held[w] = t
          /\ task[t].status = "RETRYING"
          /\ \E u \in TaskIds : u # t /\ InHeap(u) /\ task[u].status = "QUEUED"

\* C40: every handle in the priority structure refers to a task that is in
\* the store with status QUEUED, and no task has two handles in it.
C40_HandlesAreStoredAndQueued ==
    \A i \in 1..Len(heap) :
        /\ heap[i] \in store
        /\ task[heap[i]].status = "QUEUED"
        /\ \A j \in 1..Len(heap) : heap[j] = heap[i] => j = i

\* C40 witness: after a clear() has returned, a task that was with its worker
\* during the call is back in the queue for its retry, beside another handle.
C40_Witness ==
    /\ clear_call.phase = "none"
    /\ Len(heap) >= 2
    /\ \E t \in clear_call.enqueued \ clear_call.pending :
          InHeap(t) /\ task[t].retry_count > 0

====
